---- MODULE Spec2Model ----
(***************************************************************************)
(* Model of the two icon generators of tools/:                             *)
(*   generate_menu_icons.py     Color, blend_over, Canvas and its drawing  *)
(*                              primitives;                                *)
(*   generate_circular_icons.py RGB565 helpers, sample_pixel_aa and the    *)
(*                              background/symbol passes of generate_icon. *)
(*                                                                         *)
(* Numbers.  Python ints are unbounded and are modelled by TLA+ integers.  *)
(* A Python float is modelled by an exact rational [n |-> num, d |-> den]  *)
(* with d > 0; sums, products and comparisons are exact.  math.sqrt is the *)
(* one irrational step: every comparison of a square root with a rational  *)
(* is decided exactly on the squares, and where the root itself is used as *)
(* a number (an alpha such as r + 0.5 - d) it is rounded down to a         *)
(* multiple of 1/(FP * den).  Binary64 rounding is not modelled.           *)
(***************************************************************************)
EXTENDS Integers, Sequences, FiniteSets, TLC

VARIABLES
    cv,        \* the Canvas object: [w, h, bg, px]
    last,      \* the last Canvas call: [op, x, y, c, a, before, val]
    err,       \* the exception that ended the script, or "none"
    left,      \* number of Canvas calls the script has still to make
    col,       \* colour handed to the packing routines
    via,       \* which packing routine produced `packed`
    packed,    \* its 16-bit result, or -1 before packing
    unpacked,  \* rgb565_to_rgb(packed), or <<>> before expansion
    pix,       \* one RGB565 pixel of an icon buffer as blend_565 rewrites it
    nblend,    \* number of blend_565 calls applied to pix
    bl,        \* one blending call: [op, dst, src, alpha, result]
    smp,       \* sample_pixel_aa frame: [pc, x, y, sx, sy, total, pts, result]
    shape,     \* the shape_func handed to sample_pixel_aa
    icon       \* generate_icon frame: [pc, bg_color, symbol, pixels, err]

vars == <<cv, last, err, left, col, via, packed, unpacked, pix, nblend, bl, smp, shape,
          icon>>
canvasVars == <<cv, last, err, left>>
colorVars == <<col, via, packed, unpacked, pix, nblend, bl>>
samplerVars == <<smp, shape>>
iconVars == <<icon>>

----------------------------------------------------------------------------
(* Arithmetic                                                              *)

Abs(n) == IF n < 0 THEN -n ELSE n
Min(a, b) == IF a <= b THEN a ELSE b
Max(a, b) == IF a >= b THEN a ELSE b

\* Python int(n/d) for d > 0: truncation toward zero.
Trunc(n, d) == IF n >= 0 THEN n \div d ELSE -((-n) \div d)

RECURSIVE IsqrtIter(_, _, _)
IsqrtIter(n, lo, hi) ==
    IF lo >= hi THEN lo
    ELSE LET mid == (lo + hi + 1) \div 2
         IN IF mid * mid <= n THEN IsqrtIter(n, mid, hi)
            ELSE IsqrtIter(n, lo, mid - 1)

\* floor(sqrt(n)) for 0 <= n < 2^31 (46340 = floor(sqrt(2^31 - 1)))
Isqrt(n) == IsqrtIter(n, 0, Min(n, 46340))

\* Python's & and | on unbounded two's-complement ints (\div floors, so the
\* recursion on a negative operand ends at -1, the all-ones word).
RECURSIVE BitAnd(_, _)
BitAnd(a, b) ==
    IF a = 0 \/ b = 0 THEN 0
    ELSE IF a = -1 THEN b
    ELSE IF b = -1 THEN a
    ELSE (a % 2) * (b % 2) + 2 * BitAnd(a \div 2, b \div 2)

RECURSIVE BitOr(_, _)
BitOr(a, b) ==
    IF a = 0 THEN b
    ELSE IF b = 0 THEN a
    ELSE IF a = -1 \/ b = -1 THEN -1
    ELSE Max(a % 2, b % 2) + 2 * BitOr(a \div 2, b \div 2)

\* a << k and a >> k on non-negative ints
Shl(a, k) == a * (2 ^ k)
Shr(a, k) == a \div (2 ^ k)

\* Rationals
Rat(n, d) == [n |-> n, d |-> d]
RLe(a, b) == a.n * b.d <= b.n * a.d
RLt(a, b) == a.n * b.d < b.n * a.d
RMin(a, b) == IF RLe(a, b) THEN a ELSE b
RMax(a, b) == IF RLe(a, b) THEN b ELSE a
RZero == Rat(0, 1)
ROne == Rat(1, 1)

----------------------------------------------------------------------------
(* generate_menu_icons.py: Color                                           *)

Color(r, g, b) == [r |-> r, g |-> g, b |-> b]

\* variant: channels returned as they are
ClampNoop(c) == c

\* Color.clamp
Clamp(c) == Color(Max(0, Min(255, c.r)), Max(0, Min(255, c.g)), Max(0, Min(255, c.b)))

\* variant: levels by floor division instead of rounding
ToRgb565Trunc(c0) ==
    LET c == Clamp(c0)
    IN BitOr(BitOr(Shl((c.r * 31) \div 255, 11), Shl((c.g * 63) \div 255, 5)),
             (c.b * 31) \div 255)

\* Color.to_rgb565
ToRgb565(c0) ==
    LET c == Clamp(c0)
        r5 == (c.r * 31 + 127) \div 255
        g6 == (c.g * 63 + 127) \div 255
        b5 == (c.b * 31 + 127) \div 255
    IN BitOr(BitOr(Shl(r5, 11), Shl(g6, 5)), b5)

\* Color.lerp, t a rational
Lerp(c, other, t0) ==
    LET t == RMax(RZero, RMin(ROne, t0))
    IN Color(Trunc(c.r * t.d + (other.r - c.r) * t.n, t.d),
             Trunc(c.g * t.d + (other.g - c.g) * t.n, t.d),
             Trunc(c.b * t.d + (other.b - c.b) * t.n, t.d))

\* variant: the weights of dst and src exchanged
BlendOverSwapped(dst, src, alpha) ==
    LET a == RMax(RZero, RMin(ROne, alpha))
    IN Color(Trunc(src.r * (a.d - a.n) + dst.r * a.n, a.d),
             Trunc(src.g * (a.d - a.n) + dst.g * a.n, a.d),
             Trunc(src.b * (a.d - a.n) + dst.b * a.n, a.d))

\* blend_over(dst, src, alpha)
BlendOver(dst, src, alpha) ==
    LET a == RMax(RZero, RMin(ROne, alpha))
    IN Color(Trunc(dst.r * (a.d - a.n) + src.r * a.n, a.d),
             Trunc(dst.g * (a.d - a.n) + src.g * a.n, a.d),
             Trunc(dst.b * (a.d - a.n) + src.b * a.n, a.d))

----------------------------------------------------------------------------
(* generate_circular_icons.py: RGB565 helpers                              *)

\* rgb_to_565
RgbTo565(r, g, b) ==
    BitOr(BitOr(Shl(BitAnd(r, 248), 8), Shl(BitAnd(g, 252), 3)), Shr(b, 3))

\* variant: green read through the five-bit mask
Rgb565ToRgbNarrow(color) ==
    << Shl(BitAnd(Shr(color, 11), 31), 3),
       Shl(BitAnd(Shr(color, 5), 31), 2),
       Shl(BitAnd(color, 31), 3) >>

\* rgb565_to_rgb; the tuple (r, g, b) as a sequence
Rgb565ToRgb(color) ==
    << Shl(BitAnd(Shr(color, 11), 31), 3),
       Shl(BitAnd(Shr(color, 5), 63), 2),
       Shl(BitAnd(color, 31), 3) >>

\* blend_rgb: no clamp of alpha
BlendRgb(fg, bg, alpha) ==
    << Trunc(fg[1] * alpha.n + bg[1] * (alpha.d - alpha.n), alpha.d),
       Trunc(fg[2] * alpha.n + bg[2] * (alpha.d - alpha.n), alpha.d),
       Trunc(fg[3] * alpha.n + bg[3] * (alpha.d - alpha.n), alpha.d) >>

\* blend_565
Blend565(fg, bg, alpha) ==
    LET result_rgb == BlendRgb(Rgb565ToRgb(fg), Rgb565ToRgb(bg), alpha)
    IN RgbTo565(result_rgb[1], result_rgb[2], result_rgb[3])

----------------------------------------------------------------------------
(* generate_menu_icons.py: Canvas                                          *)
(* The operators below work on a frame m = [w, h, bg, px, err]: the Canvas *)
(* fields plus the exception raised so far.  Once err is set the call has  *)
(* been left, and nothing further is written.                              *)

\* Floats handed to the drawing primitives are multiples of 1/FP.
FP == 2 ^ 3

\* range(lo, hi) loop: m := Body(m, i) for i = lo, ..., hi - 1
RECURSIVE ForRange(_, _, _, _)
ForRange(Body(_, _), m, i, hi) ==
    IF i >= hi \/ m.err # "none" THEN m
    ELSE ForRange(Body, Body(m, i), i + 1, hi)

\* Canvas.__init__: range(w * h) is empty when w * h <= 0
CanvasNew(w, h, bg) ==
    [w |-> w, h |-> h, bg |-> bg, px |-> [i \in 1..(w * h) |-> bg], err |-> "none"]

\* variant: upper bounds only
InBoundsNoLower(m, x, y) == x < m.w /\ y < m.h

\* the test `0 <= x < self.w and 0 <= y < self.h`
InBounds(m, x, y) == 0 <= x /\ x < m.w /\ 0 <= y /\ y < m.h

\* Canvas._idx
Idx(m, x, y) == y * m.w + x

\* Python list indexing: the 1-based position of list[i], 0 for IndexError
PyAt(len, i) ==
    IF 0 <= i /\ i < len THEN i + 1
    ELSE IF -len <= i /\ i < 0 THEN i + len + 1
    ELSE 0

\* variant: the value appended instead of assigned
PxStoreAppend(m, i, c) == [m EXCEPT !.px = Append(@, c)]

\* px[i] = c (and pixels[idx] = c), with Python's index rules
PxStore(m, i, c) ==
    IF PyAt(Len(m.px), i) = 0 THEN [m EXCEPT !.err = "IndexError"]
    ELSE [m EXCEPT !.px[PyAt(Len(m.px), i)] = c]

\* Canvas.set
CSet(m, x, y, c) ==
    IF m.err # "none" THEN m
    ELSE IF InBounds(m, x, y) THEN PxStore(m, Idx(m, x, y), c)
    ELSE m

\* Canvas.get: [val, err]
CGet(m, x, y) ==
    IF InBounds(m, x, y)
    THEN IF PyAt(Len(m.px), Idx(m, x, y)) = 0
         THEN [val |-> m.bg, err |-> "IndexError"]
         ELSE [val |-> m.px[PyAt(Len(m.px), Idx(m, x, y))], err |-> "none"]
    ELSE [val |-> m.bg, err |-> "none"]

\* Canvas.seta
CSeta(m, x, y, c, a) ==
    IF m.err # "none" THEN m
    ELSE IF InBounds(m, x, y)
    THEN IF PyAt(Len(m.px), Idx(m, x, y)) = 0 THEN [m EXCEPT !.err = "IndexError"]
         ELSE PxStore(m, Idx(m, x, y),
                      BlendOver(m.px[PyAt(Len(m.px), Idx(m, x, y))], c, a))
    ELSE m

\* Canvas.line: one iteration of `while True` from (x0, y0) with error term e
RECURSIVE LineLoop(_, _, _, _, _, _, _, _, _, _, _)
LineLoop(m, x0, y0, x1, y1, dx, dy, sx, sy, e, c) ==
    LET m1 == CSet(m, x0, y0, c)
        e2 == 2 * e
        stepx == e2 >= dy
        ex == IF stepx THEN e + dy ELSE e
        nx == IF stepx THEN x0 + sx ELSE x0
        stepy == e2 <= dx
        ey == IF stepy THEN ex + dx ELSE ex
        ny == IF stepy THEN y0 + sy ELSE y0
    IN IF m1.err # "none" \/ (x0 = x1 /\ y0 = y1) THEN m1
       ELSE LineLoop(m1, nx, ny, x1, y1, dx, dy, sx, sy, ey, c)

\* Canvas.line (Bresenham)
CLine(m, x0, y0, x1, y1, c) ==
    LET dx == Abs(x1 - x0)
        dy == -Abs(y1 - y0)
        sx == IF x0 < x1 THEN 1 ELSE -1
        sy == IF y0 < y1 THEN 1 ELSE -1
    IN LineLoop(m, x0, y0, x1, y1, dx, dy, sx, sy, dx + dy, c)

\* the eight symmetric writes of one Canvas.circle iteration
CircleOctants(m, cx, cy, x, y, c) ==
    LET m1 == CSet(m, cx + x, cy + y, c)
        m2 == CSet(m1, cx + y, cy + x, c)
        m3 == CSet(m2, cx - y, cy + x, c)
        m4 == CSet(m3, cx - x, cy + y, c)
        m5 == CSet(m4, cx - x, cy - y, c)
        m6 == CSet(m5, cx - y, cy - x, c)
        m7 == CSet(m6, cx + y, cy - x, c)
    IN CSet(m7, cx + x, cy - y, c)

\* Canvas.circle: `while x >= y`
RECURSIVE CircleLoop(_, _, _, _, _, _, _)
CircleLoop(m, cx, cy, x, y, e, c) ==
    IF ~(x >= y) \/ m.err # "none" THEN m
    ELSE LET m1 == CircleOctants(m, cx, cy, x, y, c)
             y1 == y + 1
             e1 == e + 1 + 2 * y1
             dec == 2 * (e1 - x) + 1 > 0
             x1 == IF dec THEN x - 1 ELSE x
             e2 == IF dec THEN e1 + 1 - 2 * x1 ELSE e1
         IN CircleLoop(m1, cx, cy, x1, y1, e2, c)

\* Canvas.circle
CCircle(m, cx, cy, r, c) == CircleLoop(m, cx, cy, r, 0, 0, c)

\* one row of Canvas.fill_circle
FillCircleRow(m, cx, cy, r, c, y) ==
    LET rr == r * r
        dy2 == (y - cy) * (y - cy)
    IN IF dy2 > rr THEN m
       ELSE IF rr - dy2 < 0 THEN [m EXCEPT !.err = "ValueError"]
       ELSE LET dx == Isqrt(rr - dy2)
            IN ForRange(LAMBDA mm, x : CSet(mm, x, y, c), m, cx - dx, cx + dx + 1)

\* Canvas.fill_circle
CFillCircle(m, cx, cy, r, c) ==
    ForRange(LAMBDA mm, y : FillCircleRow(mm, cx, cy, r, c, y), m, cy - r, cy + r + 1)

\* (x - cx) ** 2 + (y - cy) ** 2 for a pixel (x, y) and a centre in 1/u units,
\* in units of 1/u^2
Dist2(x, y, cx, cy, u) == (x * u - cx) * (x * u - cx) + (y * u - cy) * (y * u - cy)

\* math.sqrt(s2) <= t, with s2 in 1/u^2 units and t in 1/u units: exact
SqrtLe(s2, t) == t >= 0 /\ s2 <= t * t

\* t <= math.sqrt(s2): exact
LeSqrt(t, s2) == t <= 0 \/ t * t <= s2

\* math.sqrt(s2) as a number, in units of 1/(u * FP), rounded down
SqrtFP(s2) == Isqrt(s2 * FP * FP)

\* a rational from a numerator and a non-zero denominator of either sign
RatOf(n, d) == IF d < 0 THEN Rat(-n, -d) ELSE Rat(n, d)

\* variant: the full colour up to d <= r, the ramp beyond it
FillCircleAAPixelHard(m, cx, cy, r, c, x, y) ==
    LET s2 == Dist2(x, y, cx, cy, FP)
    IN IF SqrtLe(s2, r) THEN CSet(m, x, y, c)
       ELSE IF SqrtLe(s2, r + FP \div 2)
       THEN CSeta(m, x, y, c, Rat((r + FP \div 2) * FP - SqrtFP(s2), FP * FP))
       ELSE m

\* body of Canvas.fill_circle_aa for one pixel; cx, cy, r in 1/FP units
FillCircleAAPixel(m, cx, cy, r, c, x, y) ==
    LET s2 == Dist2(x, y, cx, cy, FP)
    IN IF SqrtLe(s2, r - FP \div 2) THEN CSet(m, x, y, c)
       ELSE IF SqrtLe(s2, r + FP \div 2)
       THEN CSeta(m, x, y, c, Rat((r + FP \div 2) * FP - SqrtFP(s2), FP * FP))
       ELSE m

\* Canvas.fill_circle_aa
CFillCircleAA(m, cx, cy, r, c) ==
    ForRange(LAMBDA m1, y :
                 ForRange(LAMBDA m2, x : FillCircleAAPixel(m2, cx, cy, r, c, x, y),
                          m1, Trunc(cx - r - 2 * FP, FP), Trunc(cx + r + 3 * FP, FP)),
             m, Trunc(cy - r - 2 * FP, FP), Trunc(cy + r + 3 * FP, FP))

\* body of Canvas.fill_circle_gradient for one pixel: `d / r` raises
\* ZeroDivisionError when r == 0
GradientPixel(m, cx, cy, r, ci, co, x, y) ==
    LET s2 == Dist2(x, y, cx, cy, FP)
    IN IF ~SqrtLe(s2, r + FP \div 2) THEN m
       ELSE IF r = 0 THEN [m EXCEPT !.err = "ZeroDivisionError"]
       ELSE LET gc == Lerp(ci, co, RMin(ROne, RatOf(SqrtFP(s2), r * FP)))
            IN IF SqrtLe(s2, r - FP \div 2) THEN CSet(m, x, y, gc)
               ELSE CSeta(m, x, y, gc, Rat((r + FP \div 2) * FP - SqrtFP(s2), FP * FP))

\* Canvas.fill_circle_gradient
CFillCircleGradient(m, cx, cy, r, ci, co) ==
    ForRange(LAMBDA m1, y :
                 ForRange(LAMBDA m2, x : GradientPixel(m2, cx, cy, r, ci, co, x, y),
                          m1, Trunc(cx - r - 2 * FP, FP), Trunc(cx + r + 3 * FP, FP)),
             m, Trunc(cy - r - 2 * FP, FP), Trunc(cy + r + 3 * FP, FP))

\* variant: the larger of the two ramps
RingPixelMax(m, cx, cy, r, th, c, x, y) ==
    LET u == 2 * FP
        inner2 == 2 * r - th
        outer2 == 2 * r + th
        s2 == Dist2(x, y, 2 * cx, 2 * cy, u)
        d == SqrtFP(s2)
        a_outer == RMax(RZero, RMin(ROne, Rat((outer2 + FP) * FP - d, u * FP)))
        a_inner == RMax(RZero, RMin(ROne, Rat(d - (inner2 - FP) * FP, u * FP)))
    IN IF LeSqrt(inner2 - FP, s2) /\ SqrtLe(s2, outer2 + FP)
       THEN CSeta(m, x, y, c, RMax(a_outer, a_inner))
       ELSE m

\* body of Canvas.ring_aa for one pixel.  Lengths are doubled (units of
\* 1/(2 FP)) so that thickness / 2 is exact: inner2 = 2 r - thickness,
\* outer2 = 2 r + thickness.
RingPixel(m, cx, cy, r, th, c, x, y) ==
    LET u == 2 * FP
        inner2 == 2 * r - th
        outer2 == 2 * r + th
        s2 == Dist2(x, y, 2 * cx, 2 * cy, u)
        d == SqrtFP(s2)
        a_outer == RMax(RZero, RMin(ROne, Rat((outer2 + FP) * FP - d, u * FP)))
        a_inner == RMax(RZero, RMin(ROne, Rat(d - (inner2 - FP) * FP, u * FP)))
    IN IF LeSqrt(inner2 - FP, s2) /\ SqrtLe(s2, outer2 + FP)
       THEN CSeta(m, x, y, c, RMin(a_outer, a_inner))
       ELSE m

\* Canvas.ring_aa; cx, cy, r, thickness in 1/FP units
CRingAA(m, cx, cy, r, th, c) ==
    LET u == 2 * FP
        outer2 == 2 * r + th
    IN ForRange(LAMBDA m1, y :
                    ForRange(LAMBDA m2, x : RingPixel(m2, cx, cy, r, th, c, x, y),
                             m1, Trunc(2 * cx - outer2 - 2 * u, u),
                             Trunc(2 * cx + outer2 + 3 * u, u)),
                m, Trunc(2 * cy - outer2 - 2 * u, u), Trunc(2 * cy + outer2 + 3 * u, u))

\* the anti-aliased disc Canvas.line_aa draws at step i of `steps`.  With
\* D = 2 FP steps, the point (px, py) = (x0 + dx t, y0 + dy t), t = i / steps,
\* and hw + 1 are exact in 1/D units.
LineAADisc(m, x0, y0, dx, dy, width, c, steps, i) ==
    LET D == 2 * FP * steps
        px == 2 * steps * x0 + 2 * dx * i
        py == 2 * steps * y0 + 2 * dy * i
        hw1 == width * steps + D
    IN ForRange(LAMBDA m1, iy :
                    ForRange(LAMBDA m2, ix :
                                 LET s2 == (ix * D - px) * (ix * D - px)
                                           + (iy * D - py) * (iy * D - py)
                                 IN IF SqrtLe(s2, hw1)
                                    THEN CSeta(m2, ix, iy, c,
                                               RMax(RZero, RMin(ROne,
                                                   Rat(hw1 * FP - SqrtFP(s2), D * FP))))
                                    ELSE m2,
                             m1, Trunc(px - hw1, D), Trunc(px + hw1 + D, D)),
                m, Trunc(py - hw1, D), Trunc(py + hw1 + D, D))

\* Canvas.line_aa; x0, y0, x1, y1, width in 1/FP units
CLineAA(m, x0, y0, x1, y1, c, width) ==
    LET dx == x1 - x0
        dy == y1 - y0
        n2 == dx * dx + dy * dy
        steps == Isqrt(4 * n2) \div FP + 1
    IN IF n2 * 10000 < FP * FP THEN m
       ELSE ForRange(LAMBDA mm, i : LineAADisc(mm, x0, y0, dx, dy, width, c, steps, i),
                     m, 0, steps + 1)

----------------------------------------------------------------------------
(* The menu-icon script as a state machine: a Canvas is constructed, then  *)
(* drawing calls are made on it, one at a time, until one raises.  `last`  *)
(* keeps the arguments and the pixel list before the call while the call   *)
(* is the most recent one; Return is the script moving on.                 *)

MaxOps == 2
MaxDraws == 1

\* (w, h) handed to Canvas(...): positive, zero, negative and mixed
DimPairs == {<<0, 0>>, <<0, 2>>, <<-1, 2>>, <<-2, -1>>, <<1, 1>>, <<2, 1>>, <<2, 2>>}
\* pixel coordinates handed to set/get/seta: inside and outside every canvas
Coords == -1..2
BgColors == {Color(0, 0, 0)}
Palette == {Color(240, 240, 245), Color(100, 160, 255)}
Alphas == {Rat(0, 1), Rat(1, 2), Rat(1, 1), Rat(3, 2)}
\* float arguments, in 1/FP units
Centres == {<<0, 0>>, <<FP \div 2, FP \div 2>>, <<FP, 0>>, <<-FP, 5 * (FP \div 2)>>}
Radii == {-FP, -(FP \div 4), 0, FP \div 2, 3 * (FP \div 2)}
IntCentres == {<<0, 0>>, <<1, 1>>, <<2, 0>>, <<-1, 3>>}
IntRadii == -1..2
Widths == {-FP, 0, 5 * (FP \div 2)}
\* segments handed to line_aa: a point, a short one (under 0.01 long is only
\* the point: the grid is 1/FP), axis-parallel and diagonal ones
Segments == {<<0, 0, 0, 0>>, <<0, 0, FP \div 4, 0>>, <<0, 0, FP, FP>>,
             <<FP, FP \div 2, -FP, FP \div 2>>, <<FP \div 2, 2 * FP, FP \div 2, -FP>>}

Frame(c, e) == [w |-> c.w, h |-> c.h, bg |-> c.bg, px |-> c.px, err |-> e]
CanvasOf(m) == [w |-> m.w, h |-> m.h, bg |-> m.bg, px |-> m.px]

\* the script constructs its Canvas and has `calls` calls to make on it
InitCanvas(calls) ==
    /\ \E wh \in DimPairs, bg \in BgColors :
           /\ cv = CanvasOf(CanvasNew(wh[1], wh[2], bg))
           /\ err = CanvasNew(wh[1], wh[2], bg).err
    /\ last = [op |-> "init"]
    /\ left = calls

\* a call returned (or raised) leaving frame m
Called(m, l) ==
    /\ cv' = CanvasOf(m)
    /\ err' = m.err
    /\ last' = l
    /\ left' = left - 1
    /\ UNCHANGED <<colorVars, samplerVars, iconVars>>

CanCall == err = "none" /\ last.op \in {"init", "idle"} /\ left > 0

Set ==
    /\ CanCall
    /\ \E x \in Coords, y \in Coords, c \in Palette :
           Called(CSet(Frame(cv, err), x, y, c),
                  [op |-> "set", x |-> x, y |-> y, c |-> c, before |-> cv.px])

Get ==
    /\ CanCall
    /\ \E x \in Coords, y \in Coords :
           /\ cv' = cv
           /\ err' = CGet(Frame(cv, err), x, y).err
           /\ last' = [op |-> "get", x |-> x, y |-> y, before |-> cv.px,
                       val |-> CGet(Frame(cv, err), x, y).val]
           /\ left' = left - 1
           /\ UNCHANGED <<colorVars, samplerVars, iconVars>>

Seta ==
    /\ CanCall
    /\ \E x \in Coords, y \in Coords, c \in Palette, a \in Alphas :
           Called(CSeta(Frame(cv, err), x, y, c, a),
                  [op |-> "seta", x |-> x, y |-> y, c |-> c, a |-> a, before |-> cv.px])

Line ==
    /\ CanCall
    /\ \E p0 \in IntCentres, p1 \in IntCentres, c \in Palette :
           Called(CLine(Frame(cv, err), p0[1], p0[2], p1[1], p1[2], c),
                  [op |-> "line", before |-> cv.px])

Circle ==
    /\ CanCall
    /\ \E ctr \in IntCentres, r \in IntRadii, c \in Palette :
           Called(CCircle(Frame(cv, err), ctr[1], ctr[2], r, c),
                  [op |-> "circle", r |-> r, before |-> cv.px])

FillCircle ==
    /\ CanCall
    /\ \E ctr \in IntCentres, r \in IntRadii, c \in Palette :
           Called(CFillCircle(Frame(cv, err), ctr[1], ctr[2], r, c),
                  [op |-> "fill_circle", r |-> r, before |-> cv.px])

FillCircleAA ==
    /\ CanCall
    /\ \E ctr \in Centres, r \in Radii, c \in Palette :
           Called(CFillCircleAA(Frame(cv, err), ctr[1], ctr[2], r, c),
                  [op |-> "fill_circle_aa", r |-> r, before |-> cv.px])

FillCircleGradient ==
    /\ CanCall
    /\ \E ctr \in Centres, r \in Radii, ci \in Palette, co \in Palette :
           Called(CFillCircleGradient(Frame(cv, err), ctr[1], ctr[2], r, ci, co),
                  [op |-> "fill_circle_gradient", cx |-> ctr[1], cy |-> ctr[2], r |-> r,
                   before |-> cv.px])

RingAA ==
    /\ CanCall
    /\ \E ctr \in Centres, r \in Radii, th \in Widths, c \in Palette :
           Called(CRingAA(Frame(cv, err), ctr[1], ctr[2], r, th, c),
                  [op |-> "ring_aa", r |-> r, th |-> th, before |-> cv.px])

LineAA ==
    /\ CanCall
    /\ \E sg \in Segments, c \in Palette, width \in Widths :
           Called(CLineAA(Frame(cv, err), sg[1], sg[2], sg[3], sg[4], c, width),
                  [op |-> "line_aa", width |-> width, before |-> cv.px])

\* the script goes on to its next statement
Return ==
    /\ err = "none"
    /\ last.op \notin {"init", "idle"}
    /\ last' = [op |-> "idle"]
    /\ UNCHANGED <<cv, err, left, colorVars, samplerVars, iconVars>>

NextPoint ==
    \/ Set
    \/ Get
    \/ Seta
    \/ Return

NextCanvas ==
    \/ Set
    \/ Get
    \/ Seta
    \/ Line
    \/ Circle
    \/ FillCircle
    \/ FillCircleAA
    \/ FillCircleGradient
    \/ RingAA
    \/ LineAA
    \/ Return

----------------------------------------------------------------------------
(* The packing routines applied to one colour, and blend_565 applied       *)
(* repeatedly to one pixel of an icon buffer.                              *)

MaxOver == 6
MaxBlends == 3
AlphaDen == 4

\* channel values handed to Color(...): 0..255 and a few beyond both ends
Channels == (0 - MaxOver)..(255 + MaxOver)
\* one channel takes every value, the other two their extremes
ColorInputs ==
    {Color(v, a, b) : v \in Channels, a \in {0, 255}, b \in {0, 255}}
    \cup {Color(a, v, b) : v \in Channels, a \in {0, 255}, b \in {0, 255}}
    \cup {Color(a, b, v) : v \in Channels, a \in {0, 255}, b \in {0, 255}}
InRange(c) == c.r \in 0..255 /\ c.g \in 0..255 /\ c.b \in 0..255
\* ICON_COLORS red, blue, gray and the white symbol colour
IconInks == {64860, 22398, 23931, 65535}
BlendAlphas == {Rat(k, AlphaDen) : k \in 0..AlphaDen}

InitColor ==
    /\ \/ col \in ColorInputs /\ via = "none"
       \/ col = Color(0, 0, 0) /\ via = "pixel"
    /\ packed = -1
    /\ unpacked = <<>>
    /\ pix = 0
    /\ nblend = 0
    /\ bl = [op |-> "idle"]

\* write_header: p.to_rgb565()
PackToRgb565 ==
    /\ via = "none"
    /\ via' = "to_rgb565"
    /\ packed' = ToRgb565(col)
    /\ UNCHANGED <<col, unpacked, pix, nblend, bl, canvasVars, samplerVars, iconVars>>

\* rgb_to_565(r, g, b) on 8-bit channels
PackRgbTo565 ==
    /\ via = "none"
    /\ InRange(col)
    /\ via' = "rgb_to_565"
    /\ packed' = RgbTo565(col.r, col.g, col.b)
    /\ UNCHANGED <<col, unpacked, pix, nblend, bl, canvasVars, samplerVars, iconVars>>

\* rgb565_to_rgb(packed)
Expand ==
    /\ via \in {"to_rgb565", "rgb_to_565"}
    /\ unpacked = <<>>
    /\ unpacked' = Rgb565ToRgb(packed)
    /\ UNCHANGED <<col, via, packed, pix, nblend, bl, canvasVars, samplerVars, iconVars>>

\* pixels[idx] = blend_565(fg, pixels[idx], alpha), alpha in [0, 1]
BlendPixel ==
    /\ via = "pixel"
    /\ nblend < MaxBlends
    /\ \E fg \in IconInks, a \in BlendAlphas :
           pix' = Blend565(fg, pix, a)
    /\ nblend' = nblend + 1
    /\ UNCHANGED <<col, via, packed, unpacked, bl, canvasVars, samplerVars, iconVars>>

NextColor ==
    \/ PackToRgb565
    \/ PackRgbTo565
    \/ Expand
    \/ BlendPixel

----------------------------------------------------------------------------
(* generate_circular_icons.py: sample_pixel_aa                             *)
(* Coordinates are in units of 1/SU, SU = 2 * AA_SAMPLES: step = 1.0 /     *)
(* AA_SAMPLES is 2 units and offset = step / 2 is 1 unit, both exact.      *)

AA_SAMPLES == 4
SU == 2 * AA_SAMPLES

StepU == SU \div AA_SAMPLES

\* variant: samples at the sub-cell corners
OffsetCorner == StepU - StepU

\* offset = step / 2
OffsetU == StepU \div 2

\* sample_x = x + offset + sx * step (and sample_y alike)
SampleAt(x, sx) == x * SU + OffsetU + sx * StepU

\* variant: the total divided by the samples of one row
MeanOverRow(total, den) == Rat(total, AA_SAMPLES * den)

\* total / (AA_SAMPLES * AA_SAMPLES), total in units of 1/den
MeanOf(total, den) == Rat(total, AA_SAMPLES * AA_SAMPLES * den)

\* sample_pixel_aa(x, y, size, shape_func) for a shape_func F that returns
\* its coverage as a numerator over den
RECURSIVE SampleTotal(_, _, _, _)
SampleTotal(F(_, _), x, y, k) ==
    IF k = AA_SAMPLES * AA_SAMPLES THEN 0
    ELSE F(SampleAt(x, k % AA_SAMPLES), SampleAt(y, k \div AA_SAMPLES))
         + SampleTotal(F, x, y, k + 1)

SamplePixelAA(F(_, _), x, y, den) == MeanOf(SampleTotal(F, x, y, 0), den)

(* sample_pixel_aa step by step.  The shape_func handed in is one of:     *)
(*   "one", "zero"  constant 1.0 and constant 0.0;                         *)
(*   "left"         1.0 on the left half of every pixel, 0.0 elsewhere;    *)
(*   "ramp"         rising with x across every pixel in steps of 1/CovDen; *)
(*   "any"          any function with values 0, 1/CovDen, ..., 1.          *)

MaxPixel == 1
CovDen == 2

Shapes == {"one", "zero", "left", "ramp", "any"}

\* the values shape_func may return at the point (X, Y), as numerators over CovDen
ShapeValues(sh, X, Y) ==
    IF sh = "one" THEN {CovDen}
    ELSE IF sh = "zero" THEN {0}
    ELSE IF sh = "left" THEN {IF X % SU < SU \div 2 THEN CovDen ELSE 0}
    ELSE IF sh = "ramp" THEN {((X % SU) * CovDen) \div SU}
    ELSE 0..CovDen

InitSampler ==
    /\ shape \in Shapes
    /\ \E x \in 0..MaxPixel, y \in 0..MaxPixel :
           smp = [pc |-> "loop", x |-> x, y |-> y, sx |-> 0, sy |-> 0, total |-> 0,
                  pts |-> <<>>, result |-> RZero]

\* one pass of the inner loop body: total += shape_func(sample_x, sample_y)
SampleStep ==
    /\ smp.pc = "loop"
    /\ smp.sy < AA_SAMPLES
    /\ \E v \in ShapeValues(shape, SampleAt(smp.x, smp.sx), SampleAt(smp.y, smp.sy)) :
           smp' = [smp EXCEPT
                     !.total = @ + v,
                     !.pts = Append(@, <<SampleAt(smp.x, smp.sx), SampleAt(smp.y, smp.sy)>>),
                     !.sx = IF smp.sx + 1 = AA_SAMPLES THEN 0 ELSE smp.sx + 1,
                     !.sy = IF smp.sx + 1 = AA_SAMPLES THEN smp.sy + 1 ELSE smp.sy]
    /\ UNCHANGED <<shape, canvasVars, colorVars, iconVars>>

\* return total / (AA_SAMPLES * AA_SAMPLES)
SampleReturn ==
    /\ smp.pc = "loop"
    /\ smp.sy = AA_SAMPLES
    /\ smp' = [smp EXCEPT !.pc = "done", !.result = MeanOf(smp.total, CovDen)]
    /\ UNCHANGED <<shape, canvasVars, colorVars, iconVars>>

NextSampler ==
    \/ SampleStep
    \/ SampleReturn

----------------------------------------------------------------------------
(* generate_circular_icons.py: generate_circle_background, draw_*_symbol,  *)
(* generate_icon.  A pixel list under construction is the frame            *)
(* [px, err]; sample points are in units of 1/SU as in sample_pixel_aa.    *)

ICON_SIZE == 42

\* the `coverage > 0.01` test on a rational coverage
Covered(cov) == RLt(Rat(1, 100), cov)

\* circle_coverage(x, y) at the sample point (X, Y), as a numerator over
\* SU * FP; cx = cy = radius = size / 2 - 0.5 is (size - 1) * SU / 2 units
CircleCoverage(size, X, Y) ==
    LET R == ((size - 1) * SU) \div 2
        s2 == (X - R) * (X - R) + (Y - R) * (Y - R)
    IN IF SqrtLe(s2, R - SU \div 2) THEN SU * FP
       ELSE IF LeSqrt(R + SU \div 2, s2) THEN 0
       ELSE Max(0, Min(SU * FP, (R + SU \div 2) * FP - SqrtFP(s2)))

\* pixels.append(v)
PixelsAppend(m, v) == [m EXCEPT !.px = Append(@, v)]

\* loop body of generate_circle_background for pixel (x, y)
BackgroundPixel(m, size, color, transparent, x, y) ==
    LET coverage == SamplePixelAA(LAMBDA X, Y : CircleCoverage(size, X, Y), x, y, SU * FP)
    IN IF Covered(coverage)
       THEN PixelsAppend(m, Blend565(color, transparent, coverage))
       ELSE PixelsAppend(m, transparent)

\* generate_circle_background(size, color, transparent)
GenerateCircleBackground(size, color, transparent) ==
    ForRange(LAMBDA m1, y :
                 ForRange(LAMBDA m2, x : BackgroundPixel(m2, size, color, transparent, x, y),
                          m1, 0, size),
             [px |-> <<>>, err |-> "none"], 0, size)

\* draw_more_symbol works in units of 1/MU: dot_r = 3.2 and the sample
\* points (multiples of 1/8) are both whole numbers of 1/40
MU == 5 * SU
DotR == (32 * MU) \div 10
Spacing == 10 * MU

\* coverage of one dot centred (dx, dy) at the point (X, Y), both in 1/MU
\* units, as a numerator over MU * FP
DotCoverage(X, Y, dx, dy) ==
    LET s2 == (X - dx) * (X - dx) + (Y - dy) * (Y - dy)
    IN IF ~(s2 < (DotR + MU \div 2) * (DotR + MU \div 2)) THEN 0
       ELSE IF SqrtLe(s2, DotR - MU \div 2) THEN MU * FP
       ELSE Max(0, Min(MU * FP, (DotR + MU \div 2) * FP - SqrtFP(s2)))

\* variant: dot_positions without the middle dot
MoreCoverageOuterDots(size, X, Y) ==
    LET c == ((size - 1) * MU) \div 2
        x == X * (MU \div SU)
        y == Y * (MU \div SU)
    IN Max(DotCoverage(x, y, c - Spacing, c), DotCoverage(x, y, c + Spacing, c))

\* more_coverage(x, y) at the sample point (X, Y) in 1/SU units
MoreCoverage(size, X, Y) ==
    LET c == ((size - 1) * MU) \div 2
        x == X * (MU \div SU)
        y == Y * (MU \div SU)
    IN Max(DotCoverage(x, y, c - Spacing, c),
           Max(DotCoverage(x, y, c, c), DotCoverage(x, y, c + Spacing, c)))

(* The coverage functions of the gear, target, play, terminal, brightness  *)
(* and wifi symbols use atan2, sin and cos; their per-pixel result is      *)
(* taken from a family of coverage maps instead: a coverage below the      *)
(* 0.01 threshold everywhere, everything covered, and half coverage on     *)
(* the diagonal with nothing covered elsewhere.                            *)
CoverMaps == {"faint", "full", "diagonal"}

MapCoverage(map, x, y) ==
    IF map = "full" THEN Rat(1, 1)
    ELSE IF map = "faint" THEN Rat(1, 128)
    ELSE IF map = "diagonal" /\ x = y THEN Rat(1, 2)
    ELSE Rat(0, 1)

\* the factor each draw_*_symbol applies to the coverage
Opacity(symbol) ==
    IF symbol \in {"gear", "play"} THEN Rat(95, 100)
    ELSE IF symbol \in {"brightness", "more"} THEN Rat(93, 100)
    ELSE Rat(92, 100)

\* coverage of pixel (x, y) under the symbol's coverage function
SymbolCoverage(symbol, map, size, x, y) ==
    IF symbol = "more"
    THEN SamplePixelAA(LAMBDA X, Y : MoreCoverage(size, X, Y), x, y, MU * FP)
    ELSE MapCoverage(map, x, y)

\* loop body shared by the seven draw_*_symbol functions
SymbolPixel(m, symbol, map, size, fg_color, x, y) ==
    LET coverage == SymbolCoverage(symbol, map, size, x, y)
        idx == y * size + x
        o == Opacity(symbol)
    IN IF ~Covered(coverage) THEN m
       ELSE IF PyAt(Len(m.px), idx) = 0 THEN [m EXCEPT !.err = "IndexError"]
       ELSE PxStore(m, idx,
                    Blend565(fg_color, m.px[PyAt(Len(m.px), idx)],
                             Rat(coverage.n * o.n, coverage.d * o.d)))

\* draw_<symbol>_symbol(pixels, size, fg_color)
DrawSymbol(m, symbol, map, size, fg_color) ==
    ForRange(LAMBDA m1, y :
                 ForRange(LAMBDA m2, x : SymbolPixel(m2, symbol, map, size, fg_color, x, y),
                          m1, 0, size),
             m, 0, size)

Symbols == {"gear", "target", "play", "terminal", "brightness", "wifi", "more"}

\* generate_icon(icon_def): the background, then the symbol in white; a
\* symbol that matches no branch draws nothing
GenerateIconPixels(bg_color, symbol, map) ==
    LET pixels == GenerateCircleBackground(ICON_SIZE, bg_color, 0)
    IN IF symbol \in Symbols THEN DrawSymbol(pixels, symbol, map, ICON_SIZE, 65535)
       ELSE pixels

\* the icons main() generates, and one whose symbol matches no branch
IconDefs ==
    { <<64860, "gear">>, <<22398, "target">>, <<937, "play">>, <<6817, "terminal">>,
      <<60292, "brightness">>, <<1186, "wifi">>, <<23931, "more">>, <<140, "none">> }

InitIcon ==
    \E d \in IconDefs :
        icon = [pc |-> "ready", bg_color |-> d[1], symbol |-> d[2], pixels |-> <<>>,
                err |-> "none"]

GenerateIcon ==
    /\ icon.pc = "ready"
    /\ \E map \in (IF icon.symbol \in Symbols \ {"more"} THEN CoverMaps ELSE {"full"}) :
           \E m \in {GenerateIconPixels(icon.bg_color, icon.symbol, map)} :
               icon' = [icon EXCEPT !.pc = "done", !.pixels = m.px, !.err = m.err]
    /\ UNCHANGED <<canvasVars, colorVars, samplerVars>>

(* Several icons under generation, as the loop of main() generates them,  *)
(* with the two passes of each generate_icon call as separate steps so     *)
(* that the calls may interleave.  A pixel list is an object on the heap:  *)
(* heap[ref] is the content of the list with address ref.  The passes take *)
(* the size as a parameter; generate_icon hands them ICON_SIZE, here they  *)
(* run on icons of sizes up to MaxIcon.                                    *)

MaxIcon == 2

Jobs == {"first", "second"}

\* variant: one list object shared by every call
SharedList(heap) == Len(heap) - Len(heap) + 1

\* `pixels = []`: the address of a newly allocated list
NewList(heap) == Len(heap) + 1

\* the content of the list at ref, empty for a new one
ListAt(heap, ref) == IF ref \in 1..Len(heap) THEN heap[ref] ELSE <<>>

\* the heap with the list at ref (new or not) holding px
HeapWith(heap, ref, px) ==
    IF ref \in 1..Len(heap) THEN [heap EXCEPT ![ref] = px] ELSE Append(heap, px)

\* what the passes are asked to generate
JobInputs ==
    {[size |-> n, bg_color |-> d[1], symbol |-> d[2], map |-> d[3]] :
        n \in 1..MaxIcon,
        d \in {<<23931, "more", "full">>, <<64860, "gear", "diagonal">>,
               <<140, "none", "full">>}}

InitJobs ==
    \E a \in JobInputs, b \in JobInputs :
        /\ icon = [pc |-> "jobs", heap |-> <<>>,
                   job |-> [j \in Jobs |->
                              [in |-> IF j = "first" THEN a ELSE b,
                               stage |-> "ready", ref |-> 0, err |-> "none"]]]

\* pixels = generate_circle_background(size, icon_def.bg_color, transparent)
BackgroundPass(j) ==
    /\ icon.pc = "jobs"
    /\ icon.job[j].stage = "ready"
    /\ \E ref \in {NewList(icon.heap)} :
       \E m \in {GenerateCircleBackground(icon.job[j].in.size, icon.job[j].in.bg_color, 0)} :
           icon' = [icon EXCEPT
                      !.heap = HeapWith(@, ref, ListAt(@, ref) \o m.px),
                      !.job[j].stage = "background",
                      !.job[j].ref = ref,
                      !.job[j].err = m.err]
    /\ UNCHANGED <<canvasVars, colorVars, samplerVars>>

\* the if/elif chain of generate_icon: draw_<symbol>_symbol(pixels, size,
\* symbol_color) on the list the background pass returned
SymbolPass(j) ==
    /\ icon.pc = "jobs"
    /\ icon.job[j].stage = "background"
    /\ icon.job[j].err = "none"
    /\ \E m \in {IF icon.job[j].in.symbol \in Symbols
                 THEN DrawSymbol([px |-> icon.heap[icon.job[j].ref], err |-> "none"],
                                 icon.job[j].in.symbol, icon.job[j].in.map,
                                 icon.job[j].in.size, 65535)
                 ELSE [px |-> icon.heap[icon.job[j].ref], err |-> "none"]} :
           icon' = [icon EXCEPT
                      !.heap[icon.job[j].ref] = m.px,
                      !.job[j].stage = "done",
                      !.job[j].err = m.err]
    /\ UNCHANGED <<canvasVars, colorVars, samplerVars>>

NextJobs == \E j \in Jobs : BackgroundPass(j) \/ SymbolPass(j)

(* The icon builders (icon_settings, icon_bounds, icon_home, ...) draw on  *)
(* a new w x h canvas with the centre (w / 2, h / 2): one anti-aliased     *)
(* shape drawn on a new square canvas, either the 64 x 64 canvas of main() *)
(* or a small one on which centres and radii off the pixel grid are tried. *)

SmallSide == 6

\* sides of the square canvases: the small one and w = h = 64 of main()
Sides == {SmallSide, 2 ^ 6}

\* centres, radii and thicknesses in 1/FP units for a canvas of side n
ShapeCentres(n) ==
    IF n = SmallSide
    THEN {<<(n * FP) \div 2, (n * FP) \div 2>>, <<5 * (FP \div 2), 3 * FP + FP \div 4>>,
          <<0, FP>>}
    ELSE {<<(n * FP) \div 2, (n * FP) \div 2>>}

ShapeRadii(n) ==
    IF n = SmallSide THEN {k * (FP \div 4) : k \in 0..16}
    ELSE {23 * (FP \div 2), 12 * FP}

ShapeWidths(n) == IF n = SmallSide THEN {0, FP \div 2, FP, 2 * FP} ELSE {3 * FP}

InitShape ==
    /\ \E n \in Sides, bg \in BgColors :
           /\ cv = CanvasOf(CanvasNew(n, n, bg))
           /\ err = CanvasNew(n, n, bg).err
    /\ last = [op |-> "init"]
    /\ left = 1

\* cv.ring_aa(cx, cy, r, thickness, c) on the new canvas
DrawRing ==
    /\ CanCall
    /\ \E ctr \in ShapeCentres(cv.w), r \in ShapeRadii(cv.w), th \in ShapeWidths(cv.w),
          c \in Palette :
           Called(CRingAA(Frame(cv, err), ctr[1], ctr[2], r, th, c),
                  [op |-> "ring_aa", cx |-> ctr[1], cy |-> ctr[2], r |-> r, th |-> th,
                   c |-> c, before |-> cv.px])

\* cv.fill_circle_aa(cx, cy, r, c) on the new canvas
DrawDisc ==
    /\ CanCall
    /\ \E ctr \in ShapeCentres(cv.w), r \in ShapeRadii(cv.w), c \in Palette :
           Called(CFillCircleAA(Frame(cv, err), ctr[1], ctr[2], r, c),
                  [op |-> "fill_circle_aa", cx |-> ctr[1], cy |-> ctr[2], r |-> r,
                   c |-> c, before |-> cv.px])

NextShape == DrawRing \/ DrawDisc

(* Canvas.line followed iteration by iteration: last holds the locals of   *)
(* the call (x0, y0 the current point, e the error term), the point the   *)
(* call started from, the point written last, the point written before it *)
(* and the number of writes.                                               *)

LineSpan == 3

\* endpoints handed to line: on the canvas and one pixel off it
LineEnds == {<<x, y>> : x \in (-1)..LineSpan, y \in (-1)..LineSpan}

\* iterations allowed to one call, beyond what any of these lines takes
StepCap == 2 * (LineSpan + 2)

\* variant: always stepping up
LineSignUp(a, b) == b - b + 1

\* `1 if a < b else -1`
LineSign(a, b) == IF a < b THEN 1 ELSE -1

\* the rest of one iteration after the break test: [x, y, e]
LineAdvance(x0, y0, dx, dy, sx, sy, e) ==
    LET e2 == 2 * e
        stepx == e2 >= dy
        ex == IF stepx THEN e + dy ELSE e
        nx == IF stepx THEN x0 + sx ELSE x0
        stepy == e2 <= dx
        ey == IF stepy THEN ex + dx ELSE ex
        ny == IF stepy THEN y0 + sy ELSE y0
    IN [x |-> nx, y |-> ny, e |-> ey]

InitLine ==
    /\ \E bg \in BgColors :
           /\ cv = CanvasOf(CanvasNew(SmallSide, SmallSide, bg))
           /\ err = CanvasNew(SmallSide, SmallSide, bg).err
    /\ last = [op |-> "init"]
    /\ left = 1

\* cv.line(x0, y0, x1, y1, c) up to `while True`
LineEnter ==
    /\ CanCall
    /\ \E p0 \in LineEnds, p1 \in LineEnds, c \in Palette :
           last' = [op |-> "line", pc |-> "loop", x0 |-> p0[1], y0 |-> p0[2],
                    x1 |-> p1[1], y1 |-> p1[2],
                    dx |-> Abs(p1[1] - p0[1]), dy |-> -Abs(p1[2] - p0[2]),
                    sx |-> LineSign(p0[1], p1[1]), sy |-> LineSign(p0[2], p1[2]),
                    e |-> Abs(p1[1] - p0[1]) - Abs(p1[2] - p0[2]), c |-> c,
                    from |-> p0, wrote |-> <<>>, prev |-> <<>>, count |-> 0]
    /\ left' = left - 1
    /\ UNCHANGED <<cv, err, colorVars, samplerVars, iconVars>>

\* one iteration that does not break: set, then the two steps
LineIterate ==
    /\ last.op = "line"
    /\ last.pc = "loop"
    /\ last.count < StepCap
    /\ ~(last.x0 = last.x1 /\ last.y0 = last.y1)
    /\ \E m \in {CSet(Frame(cv, err), last.x0, last.y0, last.c)},
          n \in {LineAdvance(last.x0, last.y0, last.dx, last.dy, last.sx, last.sy, last.e)} :
           /\ cv' = CanvasOf(m)
           /\ err' = m.err
           /\ last' = [last EXCEPT !.x0 = n.x, !.y0 = n.y, !.e = n.e,
                                   !.wrote = <<last.x0, last.y0>>, !.prev = last.wrote,
                                   !.count = last.count + 1]
    /\ UNCHANGED <<left, colorVars, samplerVars, iconVars>>

\* the iteration that breaks: set, then `break`
LineBreak ==
    /\ last.op = "line"
    /\ last.pc = "loop"
    /\ last.x0 = last.x1 /\ last.y0 = last.y1
    /\ \E m \in {CSet(Frame(cv, err), last.x0, last.y0, last.c)} :
           /\ cv' = CanvasOf(m)
           /\ err' = m.err
    /\ last' = [last EXCEPT !.pc = "done", !.wrote = <<last.x0, last.y0>>,
                            !.prev = last.wrote, !.count = last.count + 1]
    /\ UNCHANGED <<left, colorVars, samplerVars, iconVars>>

NextLine == LineEnter \/ LineIterate \/ LineBreak

(* One call of a blending routine, with any alpha.                         *)

\* alphas handed to the blending routines: below 0, in [0, 1] and above 1
AnyAlphas == {Rat(-1, 2), Rat(0, 1), Rat(1, 4), Rat(1, 2), Rat(1, 1), Rat(3, 2)}

\* colours with channels in 0..255: bg and the palette of main(), and white
BlendColors == BgColors \cup Palette \cup {Color(255, 255, 255)}

\* the colour (r, g, b) as the tuple blend_rgb takes
TupleOf(c) == <<c.r, c.g, c.b>>

InitBlend ==
    /\ col = Color(0, 0, 0)
    /\ via = "idle"
    /\ packed = -1
    /\ unpacked = <<>>
    /\ pix = 0
    /\ nblend = 0
    /\ bl = [op |-> "ready"]

\* blend_over(dst, src, alpha)
CallBlendOver ==
    /\ bl.op = "ready"
    /\ \E dst \in BlendColors, src \in BlendColors, alpha \in AnyAlphas :
           bl' = [op |-> "blend_over", dst |-> TupleOf(dst), src |-> TupleOf(src),
                  alpha |-> alpha, result |-> TupleOf(BlendOver(dst, src, alpha))]
    /\ UNCHANGED <<col, via, packed, unpacked, pix, nblend, canvasVars, samplerVars,
                   iconVars>>

\* blend_rgb(fg, bg, alpha): fg is composited over bg
CallBlendRgb ==
    /\ bl.op = "ready"
    /\ \E fg \in BlendColors, bg \in BlendColors, alpha \in AnyAlphas :
           bl' = [op |-> "blend_rgb", dst |-> TupleOf(bg), src |-> TupleOf(fg),
                  alpha |-> alpha, result |-> BlendRgb(TupleOf(fg), TupleOf(bg), alpha)]
    /\ UNCHANGED <<col, via, packed, unpacked, pix, nblend, canvasVars, samplerVars,
                   iconVars>>

\* blend_565(fg, bg, alpha): the result is kept packed and expanded
CallBlend565 ==
    /\ bl.op = "ready"
    /\ \E fg \in IconInks \cup {0}, bg \in IconInks \cup {0}, alpha \in AnyAlphas :
           bl' = [op |-> "blend_565", dst |-> Rgb565ToRgb(bg), src |-> Rgb565ToRgb(fg),
                  alpha |-> alpha, packed |-> Blend565(fg, bg, alpha),
                  result |-> BlendRgb(Rgb565ToRgb(fg), Rgb565ToRgb(bg), alpha)]
    /\ UNCHANGED <<col, via, packed, unpacked, pix, nblend, canvasVars, samplerVars,
                   iconVars>>

NextBlend == CallBlendOver \/ CallBlendRgb \/ CallBlend565

(* One packed colour taken through the RGB565 helpers: expanded and packed *)
(* again, blended at alpha 1.0 and 0.0, and used as the colour of a        *)
(* background pixel.                                                       *)

\* every 16-bit value
Words == 0..(2 ^ 16 - 1)

\* the values of ICON_COLORS
IconColors == {64860, 22398, 937, 6817, 60292, 1186, 140, 23931}

\* the colours a word is blended with
Partners == {0, 2 ^ 16 - 1}

\* pixels of the ICON_SIZE background looked at: the centre, two inside the
\* circle, one on its edge, one outside
ProbePixels == {<<ICON_SIZE \div 2, ICON_SIZE \div 2>>, <<10, 30>>, <<7, 7>>,
                <<0, ICON_SIZE \div 2>>, <<0, 0>>}

InitWord ==
    /\ col = Color(0, 0, 0)
    /\ via = "idle"
    /\ packed = -1
    /\ unpacked = <<>>
    /\ pix = 0
    /\ nblend = 0
    /\ \E p \in Words : bl = [op |-> "word", p |-> p]

\* rgb_to_565(*rgb565_to_rgb(p))
RoundTrip ==
    /\ bl.op = "word"
    /\ \E rgb \in {Rgb565ToRgb(bl.p)} :
           bl' = [op |-> "round_trip", p |-> bl.p, rgb |-> rgb,
                  back |-> RgbTo565(rgb[1], rgb[2], rgb[3])]
    /\ UNCHANGED <<col, via, packed, unpacked, pix, nblend, canvasVars, samplerVars,
                   iconVars>>

\* blend_565(p, bg, 1.0)
BlendOpaque ==
    /\ bl.op = "word"
    /\ \E bg \in Partners :
           bl' = [op |-> "blend_565", fg |-> bl.p, bg |-> bg, alpha |-> Rat(1, 1),
                  result |-> Blend565(bl.p, bg, Rat(1, 1))]
    /\ UNCHANGED <<col, via, packed, unpacked, pix, nblend, canvasVars, samplerVars,
                   iconVars>>

\* blend_565(fg, p, 0.0)
BlendClear ==
    /\ bl.op = "word"
    /\ \E fg \in Partners :
           bl' = [op |-> "blend_565", fg |-> fg, bg |-> bl.p, alpha |-> Rat(0, 1),
                  result |-> Blend565(fg, bl.p, Rat(0, 1))]
    /\ UNCHANGED <<col, via, packed, unpacked, pix, nblend, canvasVars, samplerVars,
                   iconVars>>

\* one pass of the loop body of generate_circle_background(ICON_SIZE, p)
FillBackgroundPixel ==
    /\ bl.op = "word"
    /\ bl.p \in IconColors
    /\ \E q \in ProbePixels :
           bl' = [op |-> "background", color |-> bl.p, x |-> q[1], y |-> q[2],
                  pixel |-> BackgroundPixel([px |-> <<>>, err |-> "none"], ICON_SIZE,
                                            bl.p, 0, q[1], q[2]).px[1]]
    /\ UNCHANGED <<col, via, packed, unpacked, pix, nblend, canvasVars, samplerVars,
                   iconVars>>

NextWord == RoundTrip \/ BlendOpaque \/ BlendClear \/ FillBackgroundPixel

(* draw_target_symbol: target_coverage, in units of 1/TU, in which the     *)
(* sample points (multiples of 1/8) and inner_r = outer_r * 0.42 are whole *)
(* numbers.  dist is compared exactly on its square; where it is used as a *)
(* number it is rounded down to a multiple of 1/TU (it is exact on the row *)
(* and the column through the centre).                                     *)

TU == 25 * SU

\* outer_r = size / 2 - 8, inner_r = outer_r * 0.42, ring_width = 2.0,
\* center_r = 2.5, crosshair_width = 1.8
OuterR(size) == (size * TU) \div 2 - 8 * TU
InnerR(size) == (OuterR(size) * 42) \div 100
RingWidth == 2 * TU
CenterR == (25 * TU) \div 10
CrosshairWidth == (18 * TU) \div 10

\* clamp(val) for val = n / d
ClampRat(n, d) == RMax(RZero, RMin(ROne, Rat(n, d)))

\* dist < t and dist > t for dist = sqrt(s2): exact
DistLt(s2, t) == t > 0 /\ s2 < t * t
DistGt(s2, t) == t < 0 \/ s2 > t * t

\* target_coverage(x, y) at the point (X, Y) given in 1/SU units
TargetCoverage(size, X, Y) ==
    LET c == ((size - 1) * TU) \div 2
        x == X * (TU \div SU)
        y == Y * (TU \div SU)
        s2 == (x - c) * (x - c) + (y - c) * (y - c)
        dist == Isqrt(s2)
        outer == IF DistGt(s2, OuterR(size) - RingWidth)
                    /\ DistLt(s2, OuterR(size) + RingWidth)
                 THEN ClampRat(RingWidth \div 2 - Abs(dist - OuterR(size)), RingWidth \div 2)
                 ELSE RZero
        inner == IF DistGt(s2, InnerR(size) - (7 * RingWidth) \div 10)
                    /\ DistLt(s2, InnerR(size) + (7 * RingWidth) \div 10)
                 THEN ClampRat((35 * RingWidth) \div 100 - Abs(dist - InnerR(size)),
                               (35 * RingWidth) \div 100)
                 ELSE RZero
        dot == IF DistLt(s2, CenterR) THEN ClampRat(10 * CenterR - 7 * dist, 10 * CenterR)
               ELSE RZero
        between == DistGt(s2, InnerR(size) + RingWidth + TU)
                      /\ DistLt(s2, OuterR(size) - RingWidth - TU)
        vertical == IF between /\ Abs(x - c) < CrosshairWidth
                    THEN ClampRat(CrosshairWidth - Abs(x - c), CrosshairWidth)
                    ELSE RZero
        horizontal == IF between /\ Abs(y - c) < CrosshairWidth
                      THEN ClampRat(CrosshairWidth - Abs(y - c), CrosshairWidth)
                      ELSE RZero
    IN RMax(RMax(RMax(outer, inner), dot), RMax(vertical, horizontal))

(* A coverage function of a 42 x 42 icon evaluated at one point: smp holds  *)
(* the point in 1/SU units and then the coverage returned, shape names the *)
(* function.                                                               *)

\* the points tried: three rows (the one through the centre, the sample row
\* next to it, one further down) and the diagonal through the centre
CoverPoints ==
    {<<X, Y>> : X \in 0..(ICON_SIZE * SU), Y \in {((ICON_SIZE - 1) * SU) \div 2,
                                                  ((ICON_SIZE - 1) * SU) \div 2 + 1,
                                                  (ICON_SIZE * SU) \div 2 + SU}}
    \cup {<<X, X>> : X \in 0..(ICON_SIZE * SU)}

InitCover ==
    /\ shape \in {"target", "more"}
    /\ \E p \in CoverPoints : smp = [pc |-> "point", X |-> p[1], Y |-> p[2]]

\* target_coverage(x, y)
EvalTarget ==
    /\ smp.pc = "point"
    /\ shape = "target"
    /\ smp' = [pc |-> "covered", X |-> smp.X, Y |-> smp.Y,
               coverage |-> TargetCoverage(ICON_SIZE, smp.X, smp.Y)]
    /\ UNCHANGED <<shape, canvasVars, colorVars, iconVars>>

\* more_coverage(x, y)
EvalMore ==
    /\ smp.pc = "point"
    /\ shape = "more"
    /\ smp' = [pc |-> "covered", X |-> smp.X, Y |-> smp.Y,
               coverage |-> Rat(MoreCoverage(ICON_SIZE, smp.X, smp.Y), MU * FP)]
    /\ UNCHANGED <<shape, canvasVars, colorVars, iconVars>>

NextCover == EvalTarget \/ EvalMore

IdleColor ==
    /\ col = Color(0, 0, 0)
    /\ via = "idle"
    /\ packed = -1
    /\ unpacked = <<>>
    /\ pix = 0
    /\ nblend = 0
    /\ bl = [op |-> "idle"]

IdleSampler ==
    /\ smp = [pc |-> "idle"]
    /\ shape = "none"

IdleIcon == icon = [pc |-> "idle"]

IdleCanvas ==
    /\ cv = CanvasOf(CanvasNew(1, 1, Color(0, 0, 0)))
    /\ last = [op |-> "init"]
    /\ err = "none"
    /\ left = 0

\* either script at work: generate_menu_icons.py making any of its Canvas
\* calls, or generate_circular_icons.py generating one icon
Init ==
    /\ IdleColor
    /\ IdleSampler
    /\ \/ InitCanvas(MaxDraws) /\ IdleIcon
       \/ IdleCanvas /\ InitIcon

Next == NextCanvas \/ GenerateIcon
Spec == Init /\ [][Next]_vars

\* the menu-icon script making point accesses only
InitPoint == InitCanvas(MaxOps) /\ IdleColor /\ IdleSampler /\ IdleIcon
SpecPoint == InitPoint /\ [][NextPoint]_vars

\* sample_pixel_aa on one pixel
InitSample == IdleCanvas /\ IdleColor /\ InitSampler /\ IdleIcon
SpecSampler == InitSample /\ [][NextSampler]_vars

\* colour packing, expansion and blending
InitPack == IdleCanvas /\ InitColor /\ IdleSampler /\ IdleIcon
SpecColor == InitPack /\ [][NextColor]_vars

\* generate_circular_icons.py generating two icons, passes interleaved
InitPure == IdleCanvas /\ IdleColor /\ IdleSampler /\ InitJobs
SpecPure == InitPure /\ [][NextJobs]_vars

\* one anti-aliased shape drawn on a new canvas
InitDraw == InitShape /\ IdleColor /\ IdleSampler /\ IdleIcon
SpecShape == InitDraw /\ [][NextShape]_vars

\* one line drawn on a new canvas; the loop is the only thing running, so
\* it is never held up
InitStroke == InitLine /\ IdleColor /\ IdleSampler /\ IdleIcon
SpecLine == InitStroke /\ [][NextLine]_vars /\ WF_vars(NextLine)

\* one packed colour through the RGB565 helpers
InitWords == IdleCanvas /\ InitWord /\ IdleSampler /\ IdleIcon
SpecWord == InitWords /\ [][NextWord]_vars

\* one call of a blending routine
InitMix == IdleCanvas /\ InitBlend /\ IdleSampler /\ IdleIcon
SpecBlend == InitMix /\ [][NextBlend]_vars

\* a symbol's coverage function evaluated at one point
InitPointCover == IdleCanvas /\ IdleColor /\ InitCover /\ IdleIcon
SpecCover == InitPointCover /\ [][NextCover]_vars

----------------------------------------------------------------------------
(* Properties                                                              *)

\* (x, y) is a pixel of the canvas: 0 <= x < w and 0 <= y < h
Inside(x, y) == x \in 0..(cv.w - 1) /\ y \in 0..(cv.h - 1)

\* C1: for coordinates outside the canvas (negative ones included) set and
\* seta leave every stored pixel unchanged, get returns the background
\* colour, and none of them raises.
C1_OutOfBoundsNoOp ==
    (last.op \in {"set", "seta", "get"} /\ ~Inside(last.x, last.y)) =>
        /\ err = "none"
        /\ cv.px = last.before
        /\ last.op = "get" => last.val = cv.bg

\* an out-of-bounds write at a negative x on a canvas that holds a pixel
\* other than the background
C1_Witness ==
    /\ last.op \in {"set", "seta"}
    /\ last.x < 0
    /\ last.y \in 0..(cv.h - 1)
    /\ \E i \in 1..Len(cv.px) : cv.px[i] # cv.bg

\* C2: a canvas created with (w, h) holds w * h pixels, every drawing call
\* leaves the buffer at the length it had, set writes position y * w + x
\* (row-major), and generate_icon returns exactly ICON_SIZE * ICON_SIZE
\* values whatever symbol is drawn.
C2_BufferLength ==
    /\ (cv.w >= 0 /\ cv.h >= 0) => Len(cv.px) = cv.w * cv.h
    /\ last.op \notin {"init", "idle"} => Len(cv.px) = Len(last.before)
    /\ (last.op = "set" /\ Inside(last.x, last.y)) =>
           cv.px = [last.before EXCEPT ![last.y * cv.w + last.x + 1] = last.c]
    /\ icon.pc = "done" =>
           /\ icon.err = "none"
           /\ Len(icon.pixels) = ICON_SIZE * ICON_SIZE

\* generate_icon has returned the 'more' icon: the corner is transparent and
\* the middle dot has been drawn over the background at the centre
C2_Witness ==
    /\ icon.pc = "done"
    /\ icon.symbol = "more"
    /\ Len(icon.pixels) = ICON_SIZE * ICON_SIZE
    /\ icon.pixels[1] = 0
    /\ icon.pixels[(ICON_SIZE \div 2) * ICON_SIZE + ICON_SIZE \div 2 + 1]
           \notin {0, icon.bg_color}

\* C6: on an in-bounds pixel seta with alpha 0.0 leaves the pixel as it was,
\* seta with alpha 1.0 makes it exactly c, and no other pixel changes.
C6_SetaEndpoints ==
    (last.op = "seta" /\ Inside(last.x, last.y)) =>
        /\ last.a = Rat(0, 1) => cv.px = last.before
        /\ last.a = Rat(1, 1) =>
               cv.px = [last.before EXCEPT ![last.y * cv.w + last.x + 1] = last.c]

\* seta with alpha 1.0 over a pixel that held neither the background nor c
C6_Witness ==
    /\ last.op = "seta"
    /\ Inside(last.x, last.y)
    /\ last.a = Rat(1, 1)
    /\ last.before[last.y * cv.w + last.x + 1] \notin {cv.bg, last.c}
    /\ cv.px[last.y * cv.w + last.x + 1] = last.c

\* C9: constructing a canvas with a zero or negative width or height fails
\* with a construction error.
C9_DegenerateCanvasRejected ==
    (cv.w <= 0 \/ cv.h <= 0) => err # "none"

\* C10: on a valid canvas fill_circle, fill_circle_aa, fill_circle_gradient,
\* ring_aa, line and line_aa complete without raising, whatever their finite
\* arguments.
C10_PrimitivesTotal ==
    (cv.w > 0 /\ cv.h > 0 /\ Len(cv.px) = cv.w * cv.h /\ last.op \in {"fill_circle", "fill_circle_aa", "fill_circle_gradient", "ring_aa",
                 "line", "line_aa"}) => err = "none"

\* round(n / d) for n >= 0, d > 0
RoundDiv(n, d) == (2 * n + d) \div (2 * d)

Field5Red(p) == Shr(p, 11)
Field6Green(p) == Shr(p, 5) % 64
Field5Blue(p) == p % 32

\* C3 as stated: the round trip through to_rgb565 and rgb565_to_rgb moves
\* no channel of a colour in 0..255 by more than 4.
C3_RoundTripWithin4 ==
    (via = "to_rgb565" /\ InRange(col) /\ unpacked # <<>>) =>
        /\ Abs(unpacked[1] - col.r) <= 4
        /\ Abs(unpacked[2] - col.g) <= 4
        /\ Abs(unpacked[3] - col.b) <= 4

\* C3 amended: the round trip moves red and blue by at most 10 and green by
\* at most 4.
C3_RoundTripWithin10 ==
    (via = "to_rgb565" /\ InRange(col) /\ unpacked # <<>>) =>
        /\ Abs(unpacked[1] - col.r) <= 10
        /\ Abs(unpacked[2] - col.g) <= 4
        /\ Abs(unpacked[3] - col.b) <= 10

\* a round trip that moves red by the full 10 levels
C3_Witness ==
    /\ via = "to_rgb565"
    /\ InRange(col)
    /\ unpacked # <<>>
    /\ Abs(unpacked[1] - col.r) = 10

\* C4: every packing routine rounds each 8-bit channel to the nearest 5- or
\* 6-bit level.
C4_PackingRounds ==
    (via \in {"to_rgb565", "rgb_to_565"} /\ InRange(col)) =>
        /\ Field5Red(packed) = RoundDiv(col.r * 31, 255)
        /\ Field6Green(packed) = RoundDiv(col.g * 63, 255)
        /\ Field5Blue(packed) = RoundDiv(col.b * 31, 255)

\* C5: to_rgb565 yields a 16-bit value whose three fields are the levels of
\* the clamped channels, for channels outside 0..255 too, and a pixel stays
\* in 0..65535 through any sequence of blend_565 calls with alpha in [0, 1].
C5_PackedIs16Bit ==
    /\ via = "to_rgb565" =>
           /\ packed \in 0..65535
           /\ Field5Red(packed) = RoundDiv(Max(0, Min(255, col.r)) * 31, 255)
           /\ Field6Green(packed) = RoundDiv(Max(0, Min(255, col.g)) * 63, 255)
           /\ Field5Blue(packed) = RoundDiv(Max(0, Min(255, col.b)) * 31, 255)
    /\ via = "pixel" => pix \in 0..65535

\* to_rgb565 of a colour whose red channel is far enough above 255 for the
\* unclamped level to need a sixth bit
C5_Witness ==
    /\ via = "to_rgb565"
    /\ col.r >= 260
    /\ Field5Red(packed) = 31

\* C7: sample_pixel_aa returns exactly 1.0 for the constant 1.0 function,
\* exactly 0.0 for the constant 0.0 function, and a value in [0, 1] for any
\* function with values in [0, 1].
C7_SamplerRange ==
    smp.pc = "done" =>
        /\ shape = "one" => smp.result.n = smp.result.d
        /\ shape = "zero" => smp.result.n = 0
        /\ smp.result.d > 0
        /\ 0 <= smp.result.n /\ smp.result.n <= smp.result.d

\* the sampler has returned exactly 1.0 for the constant 1.0 function
C7_Witness ==
    /\ smp.pc = "done"
    /\ shape = "one"
    /\ smp.result.n = smp.result.d
    /\ Len(smp.pts) = 16

\* the sixteen centres of the 4x4 sub-cells of pixel (x, y), in 1/8 units
SubCellCentres(x, y) == {<<8 * x + 2 * i + 1, 8 * y + 2 * j + 1>> : i \in 0..3, j \in 0..3}

RECURSIVE SumOver(_, _)
SumOver(f, S) ==
    IF S = {} THEN 0
    ELSE LET e == CHOOSE e \in S : TRUE IN f[e] + SumOver(f, S \ {e})

\* the one value a deterministic shape returns at point p
ShapeAt(sh, p) == CHOOSE v \in ShapeValues(sh, p[1], p[2]) : TRUE

\* C8: sample_pixel_aa evaluates the function exactly 16 times, once at each
\* sub-cell centre (x + (2i+1)/8, y + (2j+1)/8), a set symmetric about the
\* pixel centre in both axes, and returns the mean of the 16 values.
C8_SubCellCentres ==
    smp.pc = "done" =>
        /\ Len(smp.pts) = 16
        /\ {smp.pts[k] : k \in 1..Len(smp.pts)} = SubCellCentres(smp.x, smp.y)
        /\ \A k \in 1..Len(smp.pts) :
               /\ <<2 * (8 * smp.x + 4) - smp.pts[k][1], smp.pts[k][2]>>
                      \in {smp.pts[j] : j \in 1..Len(smp.pts)}
               /\ <<smp.pts[k][1], 2 * (8 * smp.y + 4) - smp.pts[k][2]>>
                      \in {smp.pts[j] : j \in 1..Len(smp.pts)}
        /\ shape # "any" =>
               smp.result.n * 16 * CovDen
                   = smp.result.d * SumOver([p \in SubCellCentres(smp.x, smp.y) |->
                                                ShapeAt(shape, p)],
                                            SubCellCentres(smp.x, smp.y))

\* the sampler has returned the mean 5/16 of the ramp over a pixel away from
\* the origin
C8_Witness ==
    /\ smp.pc = "done"
    /\ shape = "ramp"
    /\ smp.x = 1
    /\ smp.y = 1
    /\ smp.result.n > 0
    /\ smp.result.n < smp.result.d

\* the buffer one call of generate_icon returns for input d when it is the
\* only call made
AloneIcon(d) ==
    LET bg == GenerateCircleBackground(d.size, d.bg_color, 0)
    IN IF d.symbol \in Symbols THEN DrawSymbol(bg, d.symbol, d.map, d.size, 65535).px
       ELSE bg.px

\* C11: whatever the order and interleaving of the passes of two
\* generate_icon calls, each call ends with the buffer it yields when made
\* alone (equal buffers for equal inputs), and the two buffers are distinct
\* list objects.
C11_IconsIndependent ==
    icon.pc = "jobs" =>
        /\ \A j \in Jobs :
               /\ icon.job[j].err = "none"
               /\ icon.job[j].stage = "background" =>
                      icon.heap[icon.job[j].ref]
                          = GenerateCircleBackground(icon.job[j].in.size,
                                                     icon.job[j].in.bg_color, 0).px
               /\ icon.job[j].stage = "done" =>
                      icon.heap[icon.job[j].ref] = AloneIcon(icon.job[j].in)
        /\ \A j \in Jobs, k \in Jobs :
               (j # k /\ icon.job[j].stage # "ready" /\ icon.job[k].stage # "ready") =>
                   icon.job[j].ref # icon.job[k].ref

\* the same 'more' icon generated twice, the second call's background pass
\* run between the two passes of the first: two equal buffers
C11_Witness ==
    /\ icon.pc = "jobs"
    /\ \A j \in Jobs : icon.job[j].stage = "done" /\ icon.job[j].in.symbol = "more"
    /\ icon.job["first"].in = icon.job["second"].in
    /\ icon.job["first"].ref = 1
    /\ icon.job["second"].ref = 2
    /\ icon.heap[1] = icon.heap[2]
    /\ Len(icon.heap[1]) > 1

\* the pixel at (x, y) of the generated icon
IconPixel(x, y) == icon.pixels[y * ICON_SIZE + x + 1]

IconCorners ==
    {<<0, 0>>, <<ICON_SIZE - 1, 0>>, <<0, ICON_SIZE - 1>>, <<ICON_SIZE - 1, ICON_SIZE - 1>>}

\* C12 as stated: in the 42x42 'more' icon the centre pixel is exactly the
\* symbol colour 0xFFFF and the four corner pixels are exactly the
\* transparent colour 0x0000.
C12_CentreIsForeground ==
    (icon.pc = "done" /\ icon.symbol = "more") =>
        /\ IconPixel(ICON_SIZE \div 2, ICON_SIZE \div 2) = 65535
        /\ \A p \in IconCorners : IconPixel(p[1], p[2]) = 0

\* C12 amended: the centre pixel is the symbol colour blended over the
\* background colour at the symbol's opacity 0.93, and the four corner
\* pixels are exactly the transparent colour.
C12_CentreIsBlendedForeground ==
    (icon.pc = "done" /\ icon.symbol = "more") =>
        /\ IconPixel(ICON_SIZE \div 2, ICON_SIZE \div 2)
               = Blend565(65535, icon.bg_color, Rat(93, 100))
        /\ IconPixel(ICON_SIZE \div 2, ICON_SIZE \div 2) # icon.bg_color
        /\ \A p \in IconCorners : IconPixel(p[1], p[2]) = 0

\* the 'more' icon of main() on its gray background 0x5D7B: the centre pixel
\* is 0xEFBE and a corner is transparent
C12_Witness ==
    /\ icon.pc = "done"
    /\ icon.symbol = "more"
    /\ icon.bg_color = 23931
    /\ IconPixel(ICON_SIZE \div 2, ICON_SIZE \div 2) = 61374
    /\ IconPixel(ICON_SIZE - 1, ICON_SIZE - 1) = 0

\* the pixel at (x, y) of the canvas before and after the last call
PixelBefore(x, y) == last.before[y * cv.w + x + 1]
PixelAfter(x, y) == cv.px[y * cv.w + x + 1]

\* v lies between a and b
Between(v, a, b) == Min(a, b) <= v /\ v <= Max(a, b)

\* every channel of colour p lies between those of colours a and b
ColorBetween(p, a, b) ==
    Between(p.r, a.r, b.r) /\ Between(p.g, a.g, b.g) /\ Between(p.b, a.b, b.b)

\* squared distance of pixel (x, y) from the centre of the last call, in
\* units of 1/(2 FP), and the comparisons d < t, d > t, t1 <= d <= t2 for t
\* in the same units, all exact
LastDist2(x, y) == Dist2(x, y, 2 * last.cx, 2 * last.cy, 2 * FP)
DistBelow(x, y, t) == t > 0 /\ LastDist2(x, y) < t * t
DistAbove(x, y, t) == t < 0 \/ LastDist2(x, y) > t * t
DistWithin(x, y, t1, t2) == ~DistBelow(x, y, t1) /\ ~DistAbove(x, y, t2)

\* C13: ring_aa leaves unchanged every pixel with d < r - thickness/2 - 0.5
\* or d > r + thickness/2 + 0.5, makes a pixel with
\* r - thickness/2 + 0.5 <= d <= r + thickness/2 - 0.5 exactly the ring
\* colour, and blends the ring colour into the pixels in between, short of
\* the full colour where the inner ramp is below 1; for r = 11.5
\* and thickness = 3 at the centre of a new 64x64 canvas the centre pixel
\* stays the background colour and every pixel with 10.5 <= d <= 12.5 is
\* exactly the ring colour.
C13_RingBand ==
    last.op = "ring_aa" =>
        /\ err = "none"
        /\ \A x \in 0..(cv.w - 1), y \in 0..(cv.h - 1) :
               LET lo == 2 * last.r - last.th
                   hi == 2 * last.r + last.th
               IN /\ (DistBelow(x, y, lo - FP) \/ DistAbove(x, y, hi + FP)) =>
                         PixelAfter(x, y) = PixelBefore(x, y)
                  /\ DistWithin(x, y, lo + FP, hi - FP) => PixelAfter(x, y) = last.c
                  /\ ColorBetween(PixelAfter(x, y), PixelBefore(x, y), last.c)
                  /\ (DistAbove(x, y, lo - FP) /\ DistBelow(x, y, lo + FP)
                         /\ PixelBefore(x, y) # last.c) =>
                         PixelAfter(x, y) # last.c
        /\ (cv.w = 64 /\ last.r = 23 * (FP \div 2) /\ last.th = 3 * FP) =>
               /\ PixelAfter(32, 32) = cv.bg
               /\ \A x \in 0..(cv.w - 1), y \in 0..(cv.h - 1) :
                      ((x - 32) * (x - 32) * 4 + (y - 32) * (y - 32) * 4 \in 441..625) =>
                          PixelAfter(x, y) = last.c

\* the ring of radii 10 and 13 drawn at the centre of a new 64x64 canvas:
\* the pixel 11 to the right of the centre and the one at (+8, +8) carry the
\* ring colour, the centre the background
C13_Witness ==
    /\ last.op = "ring_aa"
    /\ cv.w = 64
    /\ last.r = 23 * (FP \div 2)
    /\ last.th = 3 * FP
    /\ PixelAfter(32, 32) = cv.bg
    /\ PixelAfter(43, 32) = last.c
    /\ PixelAfter(40, 40) = last.c
    /\ PixelAfter(45, 32) \notin {cv.bg, last.c}

\* floor(dst * (1 - a) + src * a) for a = min(1, max(0, alpha))
ClampedBlend(dst, src, alpha) ==
    LET a == RMax(RZero, RMin(ROne, alpha))
    IN (dst * (a.d - a.n) + src * a.n) \div a.d

\* C14: in every blending routine each result channel is
\* floor(dst * (1 - a) + src * a) with a the alpha clamped to [0, 1], and so
\* lies between the dst and src channels.
C14_BlendClampsAlpha ==
    bl.op \in {"blend_over", "blend_rgb", "blend_565"} =>
        \A i \in 1..3 :
            /\ bl.result[i] = ClampedBlend(bl.dst[i], bl.src[i], bl.alpha)
            /\ Between(bl.result[i], bl.dst[i], bl.src[i])

\* the coverage r + 0.5 - d of pixel (x, y) under the last fill_circle_aa
\* call is at most 0.01, i.e. d >= r + 0.49: exact, in units of 1/400
\* (1/(2 FP) is 25/400 and 0.01 is 4/400)
CoverageNegligible(x, y) ==
    LET q == 400 \div (2 * FP)
        t == q * (2 * last.r + FP) - 4
    IN t <= 0 \/ q * q * LastDist2(x, y) >= t * t

\* C15: fill_circle_aa leaves a pixel whose coverage is at most 0.01 at its
\* previous value, and sets a pixel of coverage 1 (d <= r - 0.5) to c.
C15_NegligibleCoverageSkipped ==
    last.op = "fill_circle_aa" =>
        \A x \in 0..(cv.w - 1), y \in 0..(cv.h - 1) :
            /\ CoverageNegligible(x, y) => PixelAfter(x, y) = PixelBefore(x, y)
            /\ ~DistAbove(x, y, 2 * last.r - FP) => PixelAfter(x, y) = last.c

\* squared distance, in 1/SU units, of the evaluated point from (cx, cy),
\* twice the coordinates being used so that the centre (size - 1) / 2 is whole
CoverDist2(cx2, cy2) ==
    (2 * smp.X - cx2) * (2 * smp.X - cx2) + (2 * smp.Y - cy2) * (2 * smp.Y - cy2)

\* the evaluated point is nearer than t to (cx, cy) / farther than t from it;
\* cx2, cy2 and t2 are twice the values in 1/SU units
Nearer(cx2, cy2, t2) == t2 > 0 /\ CoverDist2(cx2, cy2) < t2 * t2
Farther(cx2, cy2, t2) == t2 < 0 \/ CoverDist2(cx2, cy2) > t2 * t2

\* twice the centre coordinate of the icon, in 1/SU units
Centre2 == (ICON_SIZE - 1) * SU

\* C16: a point more than 0.5 inside a feature's boundary has coverage 1 and
\* a point more than 0.5 outside every feature has coverage 0: for the target
\* symbol, inside the centre dot (radius 2.5) and inside the outer ring
\* (outer_r - 1 .. outer_r + 1), and beyond the outer ring; for the dot
\* cluster, inside a dot (radius 3.2) and away from all three dots.
C16_HalfPixelRamp ==
    smp.pc = "covered" =>
        /\ shape = "target" =>
               /\ Nearer(Centre2, Centre2, 2 * (2 * SU)) => smp.coverage = ROne
               /\ (Farther(Centre2, Centre2, 2 * (12 * SU) + SU)
                      /\ Nearer(Centre2, Centre2, 2 * (14 * SU) - SU)) =>
                      smp.coverage = ROne
               /\ Farther(Centre2, Centre2, 2 * (14 * SU) + SU) => smp.coverage = RZero
        /\ shape = "more" =>
               /\ (\E k \in {-1, 0, 1} :
                       Nearer(Centre2 + k * 20 * SU, Centre2, (2 * (27 * SU)) \div 10)) =>
                      smp.coverage.n = smp.coverage.d
               /\ (\A k \in {-1, 0, 1} :
                       Farther(Centre2 + k * 20 * SU, Centre2, (2 * (37 * SU)) \div 10 + 1)) =>
                      smp.coverage.n = 0

\* the alpha r + 0.5 - d of pixel (x, y) in the last fill_circle_aa call lies
\* between these two: d rounded up and d rounded down to a multiple of
\* 1/FP^2
RampAlphaLow(x, y) ==
    Rat((last.r + FP \div 2) * FP - SqrtFP(Dist2(x, y, last.cx, last.cy, FP)) - 1, FP * FP)
RampAlphaHigh(x, y) ==
    Rat((last.r + FP \div 2) * FP - SqrtFP(Dist2(x, y, last.cx, last.cy, FP)), FP * FP)

\* the floor of v / u
FloorDiv(v, u) == IF v >= 0 THEN v \div u ELSE -((-v + u - 1) \div u)

\* C17: fill_circle_aa(cx, cy, r, c) makes every pixel of the canvas with
\* d <= r - 0.5 exactly c, blends c with alpha r + 0.5 - d into every pixel
\* with r - 0.5 < d <= r + 0.5, and leaves every pixel with d > r + 0.5
\* unchanged (so no pixel with d <= r + 0.5 is missed by the box iterated);
\* for r >= 2 the pixel containing the centre, when on the canvas, ends
\* exactly c.
C17_DiscFrame ==
    last.op = "fill_circle_aa" =>
        /\ err = "none"
        /\ \A x \in 0..(cv.w - 1), y \in 0..(cv.h - 1) :
               /\ ~DistAbove(x, y, 2 * last.r - FP) => PixelAfter(x, y) = last.c
               /\ (DistAbove(x, y, 2 * last.r - FP) /\ ~DistAbove(x, y, 2 * last.r + FP)) =>
                      ColorBetween(PixelAfter(x, y),
                                   BlendOver(PixelBefore(x, y), last.c, RampAlphaLow(x, y)),
                                   BlendOver(PixelBefore(x, y), last.c, RampAlphaHigh(x, y)))
               /\ DistAbove(x, y, 2 * last.r + FP) => PixelAfter(x, y) = PixelBefore(x, y)
        /\ (last.r >= 2 * FP
               /\ FloorDiv(last.cx, FP) \in 0..(cv.w - 1)
               /\ FloorDiv(last.cy, FP) \in 0..(cv.h - 1)) =>
               PixelAfter(FloorDiv(last.cx, FP), FloorDiv(last.cy, FP)) = last.c

\* a disc of radius 2.25 round (2.5, 3.25) on the small canvas: the pixel
\* holding the centre and the one above it carry the colour, the pixel two
\* to the right is blended, the corner (0, 0) is untouched
C17_Witness ==
    /\ last.op = "fill_circle_aa"
    /\ cv.w = SmallSide
    /\ last.cx = 5 * (FP \div 2)
    /\ last.cy = 3 * FP + FP \div 4
    /\ last.r = 9 * (FP \div 4)
    /\ PixelAfter(2, 3) = last.c
    /\ PixelAfter(2, 2) = last.c
    /\ PixelAfter(5, 3) \notin {cv.bg, last.c}
    /\ PixelAfter(0, 0) = cv.bg

\* the line of the last call has been started (at least one pixel written)
LineWritten == last.op = "line" /\ last.count > 0

\* C18: the loop of Canvas.line writes the start point first; each point it
\* writes is at most 1 from the one before in x and in y and no farther
\* from the end point in either; every point written lies in the bounding
\* box of the two endpoints; the point written by the iteration that breaks
\* is the end point; and every call reaches that iteration.
C18_LineInv ==
    LineWritten =>
        /\ last.count = 1 => last.wrote = last.from
        /\ last.count > 1 =>
               /\ Abs(last.wrote[1] - last.prev[1]) <= 1
               /\ Abs(last.wrote[2] - last.prev[2]) <= 1
               /\ Abs(last.x1 - last.wrote[1]) <= Abs(last.x1 - last.prev[1])
               /\ Abs(last.y1 - last.wrote[2]) <= Abs(last.y1 - last.prev[2])
        /\ Between(last.wrote[1], last.from[1], last.x1)
        /\ Between(last.wrote[2], last.from[2], last.y1)
        /\ last.pc = "done" => last.wrote = <<last.x1, last.y1>>
        /\ InBounds(Frame(cv, err), last.wrote[1], last.wrote[2]) =>
               PixelAfter(last.wrote[1], last.wrote[2]) = last.c

C18_LineTerminates ==
    /\ []C18_LineInv
    /\ (last.op = "line") ~> (last.op = "line" /\ last.pc = "done")

\* the line from (0, 0) to (3, 1) is done in four writes, the last two being
\* (2, 1) and (3, 1)
C18_Witness ==
    /\ last.op = "line"
    /\ last.pc = "done"
    /\ last.from = <<0, 0>>
    /\ last.count = 4
    /\ last.prev = <<2, 1>>
    /\ last.wrote = <<3, 1>>
    /\ PixelAfter(3, 1) = last.c

\* every sample point of pixel (x, y) is within radius - 0.5 of the centre of
\* the circle of an icon of the given size (1/SU units, doubled)
FullyCovered(size, x, y) ==
    \A q \in SubCellCentres(x, y) :
        (2 * q[1] - (size - 1) * SU) * (2 * q[1] - (size - 1) * SU)
            + (2 * q[2] - (size - 1) * SU) * (2 * q[2] - (size - 1) * SU)
        <= ((size - 1) * SU - SU) * ((size - 1) * SU - SU)

\* C19: packing the expansion of a 16-bit value gives the value back;
\* blend_565 at alpha 1.0 returns fg and at alpha 0.0 returns bg; a fully
\* covered pixel of the background holds the colour the icon was given.
C19_PackedRoundTrip ==
    /\ bl.op = "round_trip" => bl.back = bl.p
    /\ (bl.op = "blend_565" /\ bl.alpha = ROne) => bl.result = bl.fg
    /\ (bl.op = "blend_565" /\ bl.alpha = RZero) => bl.result = bl.bg
    /\ (bl.op = "background" /\ FullyCovered(ICON_SIZE, bl.x, bl.y)) => bl.pixel = bl.color

\* the round trip of 0xFFFF, expanded to (248, 252, 248) on the way
C19_Witness ==
    /\ bl.op = "round_trip"
    /\ bl.p = 2 ^ 16 - 1
    /\ bl.rgb = <<248, 252, 248>>
    /\ bl.back = 2 ^ 16 - 1

====
